---- MODULE Spec2Model ----
(***************************************************************************)
(* Model of proj, a CLI that tracks project directories in one JSON store  *)
(* (projects.json), and of the MCP adapter that edits the same store.      *)
(*                                                                         *)
(* A record is a function from the field names it carries to their values, *)
(* so that an optional field is a key that is absent.  Timestamps are      *)
(* readings of a logical clock, paths are sequences of path components.    *)
(***************************************************************************)
EXTENDS Integers, Sequences, FiniteSets, TLC

VARIABLES
  disk,     \* the persisted store file: absent, unparseable, or a document
  fs,       \* the set of paths that exist on the filesystem
  clock,    \* the current time
  last,     \* the command that has just ended: what it was and how it ended
  done,     \* per record: completed and not paused/reactivated since
  arch,     \* per record: archived straight from completed, archived since
  mem,      \* the config object held by a direct caller of loadConfig/saveConfig
  hist,     \* what the direct caller did before its most recent call
  inv,      \* two invocations of the tool running at once: where each one is
  call      \* a call of a template function: its arguments and what it returned

vars == <<disk, fs, clock, last, done, arch, mem, hist, inv, call>>

(***************************************************************************)
(* Bounds                                                                  *)
(***************************************************************************)
MaxClock == 1
MaxProjects == 1
MaxRecs == 2
MaxStore == 3
MaxLen == 3

(***************************************************************************)
(* Values                                                                  *)
(***************************************************************************)
ProjectState == {"active", "paused", "completed", "archived"}

\* the value of a key that is present but undefined, as JavaScript has it
Undefined == 0 - 1

NoArg == <<>>

FieldNames ==
  {"name", "path", "added", "lastModified", "size", "docs", "state",
   "completedAt", "category", "description", "visibility", "repoUrl",
   "nextSteps"}

Has(r, f) == f \in DOMAIN r

Defined(r, f) == Has(r, f) /\ (f = "completedAt" => r[f] # Undefined)

Put(r, f, v) == [x \in (DOMAIN r) \cup {f} |-> IF x = f THEN v ELSE r[x]]

Del(r, f) == [x \in (DOMAIN r) \ {f} |-> r[x]]

\* p.state || "active": a missing or empty state reads as "active"
StateOr(r) == IF Has(r, "state") /\ r["state"] # "" THEN r["state"] ELSE "active"

\* equality of two records as a reader of their fields sees it
SameRecord(r1, r2) ==
  \A f \in FieldNames :
    /\ Defined(r1, f) <=> Defined(r2, f)
    /\ Defined(r1, f) => r1[f] = r2[f]

SameProjects(s1, s2) ==
  /\ Len(s1) = Len(s2)
  /\ \A i \in 1..Len(s1) : SameRecord(s1[i], s2[i])

NoRecord == [name |-> ""]

(***************************************************************************)
(* Config store                                                            *)
(***************************************************************************)
Absent == [kind |-> "absent"]
Garbage == [kind |-> "garbage"]
NoProjects == [kind |-> "noprojects", version |-> "1.0.0"]

Doc(version, projects) == [kind |-> "doc", version |-> version, projects |-> projects]

defaultConfig == [version |-> "1.0.0", projects |-> <<>>]

Projects(d) == IF d.kind = "doc" THEN d.projects ELSE <<>>

\* a serializer that writes the fields of the first release only
DropUnknown(r) ==
  [x \in {f \in DOMAIN r : Defined(r, f)} \
         {"category", "description", "visibility", "repoUrl", "nextSteps"} |-> r[x]]

\* JSON.stringify leaves out the keys whose value is undefined
DropUndefined(r) == [x \in {f \in DOMAIN r : Defined(r, f)} |-> r[x]]

JSONstringify(config) ==
  Doc(config.version, [i \in 1..Len(config.projects) |-> DropUndefined(config.projects[i])])

\* a migration that resets the state: ({...project, state: "active"})
MigrateResets(project) == Put(project, "state", "active")

\* the migration of loadConfig: ({...project, state: project.state || "active"})
Migrate(project) == Put(project, "state", StateOr(project))

\* a load that persists what it migrated
loadConfigWritesBack(d) ==
  IF d.kind = "absent"
  THEN [ok |-> TRUE, config |-> defaultConfig, disk |-> JSONstringify(defaultConfig)]
  ELSE IF d.kind = "doc"
  THEN LET config == [version |-> d.version,
                      projects |-> [i \in 1..Len(d.projects) |-> Migrate(d.projects[i])]]
       IN [ok |-> TRUE, config |-> config, disk |-> JSONstringify(config)]
  ELSE [ok |-> FALSE, config |-> defaultConfig, disk |-> d]

\* a load that replaces a file it cannot parse by the default store
loadConfigResets(d) ==
  IF d.kind = "doc"
  THEN [ok |-> TRUE,
        config |-> [version |-> d.version,
                    projects |-> [i \in 1..Len(d.projects) |-> Migrate(d.projects[i])]],
        disk |-> d]
  ELSE [ok |-> TRUE, config |-> defaultConfig, disk |-> JSONstringify(defaultConfig)]

loadConfig(d) ==
  IF d.kind = "absent"
  THEN [ok |-> TRUE, config |-> defaultConfig, disk |-> JSONstringify(defaultConfig)]
  ELSE IF d.kind = "doc"
  THEN [ok |-> TRUE,
        config |-> [version |-> d.version,
                    projects |-> [i \in 1..Len(d.projects) |-> Migrate(d.projects[i])]],
        disk |-> d]
  ELSE [ok |-> FALSE, config |-> defaultConfig, disk |-> d]

saveConfig(config) == JSONstringify(config)

FindIndex(projects, name) ==
  IF \E i \in 1..Len(projects) : projects[i]["name"] = name
  THEN CHOOSE i \in 1..Len(projects) :
         /\ projects[i]["name"] = name
         /\ \A j \in 1..(i - 1) : projects[j]["name"] # name
  ELSE 0

\* !name || name.trim() === ""
IsBlank(s) == s \in {"", " "}

(***************************************************************************)
(* Outcome of a command: how it ended, whether the process was terminated  *)
(* by the function itself, the store file afterwards, the record it hit    *)
(***************************************************************************)
Outcome(result, exit, d, idx) == [result |-> result, exit |-> exit, disk |-> d, idx |-> idx]

(***************************************************************************)
(* Project lifecycle (CLI)                                                 *)
(***************************************************************************)
\* a transition that keeps a completion date the record already has
applyStateKeepsDate(project, newState, clearCompletedDate, now) ==
  LET p1 == Put(project, "state", newState)
  IN IF newState = "completed"
     THEN IF Has(p1, "completedAt") THEN p1 ELSE Put(p1, "completedAt", now)
     ELSE IF clearCompletedDate THEN Del(p1, "completedAt")
     ELSE p1

applyState(project, newState, clearCompletedDate, now) ==
  LET p1 == Put(project, "state", newState)
  IN IF newState = "completed" THEN Put(p1, "completedAt", now)
     ELSE IF clearCompletedDate THEN Del(p1, "completedAt")
     ELSE p1

\* a transition that refuses a record already in the requested state
setProjectStateNoSelf(d, name, newState, clearCompletedDate, now) ==
  IF IsBlank(name) THEN Outcome("NameRequired", TRUE, d, 0)
  ELSE
    LET ld == loadConfig(d)
        i == FindIndex(ld.config.projects, name)
    IN IF ~ld.ok THEN Outcome("ConfigCorrupt", TRUE, ld.disk, 0)
       ELSE IF i = 0 THEN Outcome("ProjectNotFound", TRUE, ld.disk, 0)
       ELSE IF ld.config.projects[i]["state"] = newState
       THEN Outcome("AlreadyInState", TRUE, ld.disk, 0)
       ELSE Outcome("ok", FALSE,
                    saveConfig([ld.config EXCEPT !.projects[i] =
                                  applyState(@, newState, clearCompletedDate, now)]),
                    i)

\* a transition that saves the loaded store before it looks the record up
setProjectStateSavesFirst(d, name, newState, clearCompletedDate, now) ==
  IF IsBlank(name) THEN Outcome("NameRequired", TRUE, d, 0)
  ELSE
    LET ld == loadConfig(d)
        i == FindIndex(ld.config.projects, name)
    IN IF ~ld.ok THEN Outcome("ConfigCorrupt", TRUE, ld.disk, 0)
       ELSE IF i = 0 THEN Outcome("ProjectNotFound", TRUE, saveConfig(ld.config), 0)
       ELSE Outcome("ok", FALSE,
                    saveConfig([ld.config EXCEPT !.projects[i] =
                                  applyState(@, newState, clearCompletedDate, now)]),
                    i)

setProjectState(d, name, newState, clearCompletedDate, now) ==
  IF IsBlank(name) THEN Outcome("NameRequired", TRUE, d, 0)
  ELSE
    LET ld == loadConfig(d)
        i == FindIndex(ld.config.projects, name)
    IN IF ~ld.ok THEN Outcome("ConfigCorrupt", TRUE, ld.disk, 0)
       ELSE IF i = 0 THEN Outcome("ProjectNotFound", TRUE, ld.disk, 0)
       ELSE Outcome("ok", FALSE,
                    saveConfig([ld.config EXCEPT !.projects[i] =
                                  applyState(@, newState, clearCompletedDate, now)]),
                    i)

\* main(): the four lifecycle commands and the arguments they pass
LifecycleOps == {"complete", "pause", "archive", "reactivate"}

TargetState(op) ==
  CASE op = "complete" -> "completed"
    [] op = "pause" -> "paused"
    [] op = "archive" -> "archived"
    [] op = "reactivate" -> "active"

\* every command leaving clearCompletedDate at its default, true
ClearFlagDefault(op) == op \in LifecycleOps

ClearFlag(op) ==
  CASE op = "complete" -> FALSE
    [] op = "pause" -> TRUE
    [] op = "archive" -> FALSE
    [] op = "reactivate" -> TRUE

(***************************************************************************)
(* Filesystem: fs maps every existing path to its modification time        *)
(***************************************************************************)
Exists(fsx, p) == p \in DOMAIN fsx

Join(p, n) == Append(p, n)

Basename(p) == p[Len(p)]

Entries(fsx, p) ==
  {q \in DOMAIN fsx : Len(q) = Len(p) + 1 /\ SubSeq(q, 1, Len(p)) = p}

indicators ==
  {".git", ".gitignore", "package.json", "Cargo.toml", "go.mod", "pom.xml",
   "build.gradle", "CMakeLists.txt", "Makefile", "pyproject.toml", "setup.py",
   "composer.json"}

looksLikeProject(fsx, p) == \E q \in Entries(fsx, p) : Basename(q) \in indicators

\* statSync(dirPath), or the fallback of the catch branch
getDirectoryMetadata(fsx, p, now) ==
  IF Exists(fsx, p)
  THEN [lastModified |-> fsx[p], size |-> Cardinality(Entries(fsx, p))]
  ELSE [lastModified |-> now, size |-> 0]

Touch(fsx, paths, now) ==
  [p \in (DOMAIN fsx) \cup paths |-> IF p \in paths THEN now ELSE fsx[p]]

(***************************************************************************)
(* add, remove, scan                                                       *)
(***************************************************************************)
\* an add that does not look for the name in the store
addProjectNoNameCheck(d, fsx, name, pathArg, docsPath, now) ==
  IF IsBlank(name) THEN Outcome("NameRequired", TRUE, d, 0)
  ELSE IF pathArg = NoArg THEN Outcome("PathRequired", TRUE, d, 0)
  ELSE IF ~Exists(fsx, pathArg) THEN Outcome("DirectoryMissing", TRUE, d, 0)
  ELSE IF docsPath # NoArg /\ ~Exists(fsx, docsPath) THEN Outcome("DocsMissing", TRUE, d, 0)
  ELSE
    LET ld == loadConfig(d)
        metadata == getDirectoryMetadata(fsx, pathArg, now)
        base == [name |-> name, path |-> pathArg, added |-> now,
                 lastModified |-> metadata.lastModified, size |-> metadata.size]
        newProject == IF docsPath # NoArg THEN Put(base, "docs", docsPath) ELSE base
    IN IF ~ld.ok THEN Outcome("ConfigCorrupt", TRUE, ld.disk, 0)
       ELSE Outcome("ok", FALSE,
                    saveConfig([ld.config EXCEPT !.projects = Append(@, newProject)]),
                    Len(ld.config.projects) + 1)

addProject(d, fsx, name, pathArg, docsPath, now) ==
  IF IsBlank(name) THEN Outcome("NameRequired", TRUE, d, 0)
  ELSE IF pathArg = NoArg THEN Outcome("PathRequired", TRUE, d, 0)
  ELSE IF ~Exists(fsx, pathArg) THEN Outcome("DirectoryMissing", TRUE, d, 0)
  ELSE IF docsPath # NoArg /\ ~Exists(fsx, docsPath) THEN Outcome("DocsMissing", TRUE, d, 0)
  ELSE
    LET ld == loadConfig(d)
        metadata == getDirectoryMetadata(fsx, pathArg, now)
        base == [name |-> name, path |-> pathArg, added |-> now,
                 lastModified |-> metadata.lastModified, size |-> metadata.size]
        newProject == IF docsPath # NoArg THEN Put(base, "docs", docsPath) ELSE base
    IN IF ~ld.ok THEN Outcome("ConfigCorrupt", TRUE, ld.disk, 0)
       ELSE IF FindIndex(ld.config.projects, name) # 0
       THEN Outcome("AlreadyExists", TRUE, ld.disk, 0)
       ELSE Outcome("ok", FALSE,
                    saveConfig([ld.config EXCEPT !.projects = Append(@, newProject)]),
                    Len(ld.config.projects) + 1)

\* a removal that fills the hole with the last record
RemoveAtSwap(s, i) == [j \in 1..(Len(s) - 1) |-> IF j = i THEN s[Len(s)] ELSE s[j]]

\* splice(index, 1)
RemoveAt(s, i) == [j \in 1..(Len(s) - 1) |-> IF j < i THEN s[j] ELSE s[j + 1]]

removeProject(d, name) ==
  IF IsBlank(name) THEN Outcome("NameRequired", TRUE, d, 0)
  ELSE
    LET ld == loadConfig(d)
        index == FindIndex(ld.config.projects, name)
    IN IF ~ld.ok THEN Outcome("ConfigCorrupt", TRUE, ld.disk, 0)
       ELSE IF index = 0 THEN Outcome("ProjectNotFound", TRUE, ld.disk, 0)
       ELSE Outcome("ok", FALSE,
                    saveConfig([ld.config EXCEPT !.projects = RemoveAt(@, index)]),
                    index)

\* readdirSync(scanPath): the directories below scanPath, in directory order
DirNames == <<"a", "b">>

Listing(fsx, p) ==
  SelectSeq([i \in 1..Len(DirNames) |-> Join(p, DirNames[i])], LAMBDA q : Exists(fsx, q))

\* a scan that recognises a tracked directory by its name
findExistingByName(projects, fullPath) ==
  \E i \in 1..Len(projects) : projects[i]["name"] = Basename(fullPath)

\* config.projects.find((p) => p.path === fullPath)
findExisting(projects, fullPath) ==
  \E i \in 1..Len(projects) : projects[i]["path"] = fullPath

RECURSIVE scanEntries(_, _, _, _)
scanEntries(projects, fsx, entries, now) ==
  IF entries = <<>> THEN projects
  ELSE
    LET fullPath == Head(entries)
        metadata == getDirectoryMetadata(fsx, fullPath, now)
        newProject == [name |-> Basename(fullPath), path |-> fullPath, added |-> now,
                       lastModified |-> metadata.lastModified, size |-> metadata.size]
        tracked == findExisting(projects, fullPath)
    IN scanEntries(IF looksLikeProject(fsx, fullPath) /\ ~tracked
                   THEN Append(projects, newProject) ELSE projects,
                   fsx, Tail(entries), now)

scanDirectory(d, fsx, dirPath, now) ==
  IF dirPath = NoArg THEN Outcome("PathRequired", TRUE, d, 0)
  ELSE IF ~Exists(fsx, dirPath) THEN Outcome("DirectoryMissing", TRUE, d, 0)
  ELSE
    LET ld == loadConfig(d)
        entries == Listing(fsx, dirPath)
        foundCount == Cardinality({q \in Entries(fsx, dirPath) : looksLikeProject(fsx, q)})
    IN IF ~ld.ok THEN Outcome("ConfigCorrupt", TRUE, ld.disk, 0)
       ELSE IF foundCount = 0 THEN Outcome("NothingFound", FALSE, ld.disk, 0)
       ELSE Outcome("ok", FALSE,
                    saveConfig([ld.config EXCEPT !.projects = scanEntries(@, fsx, entries, now)]),
                    0)

(***************************************************************************)
(* Scaffolding: create <template> <name>                                   *)
(***************************************************************************)
cwd == <<"w">>

\* the template of the integration tests (docsLocation "./docs" as
\* components), one that declares nothing optional, and one that declares
\* gitInit false and an absolute docs location with a placeholder
Templates ==
  ("basic" :> [name |-> "Basic Template", description |-> "A basic project template",
               docsLocation |-> <<".", "docs">>, gitInit |-> TRUE,
               nextSteps |-> <<"Install dependencies", "Start coding">>])
  @@ ("plain" :> [name |-> "Plain", description |-> "Nothing optional"])
  @@ ("quiet" :> [name |-> "Quiet", description |-> "No repository",
                  docsLocation |-> <<"w", "notes", "{{name}}">>, gitInit |-> FALSE,
                  nextSteps |-> <<"Read the notes">>])

TemplateIds == DOMAIN Templates

RECURSIVE JoinSteps(_)
JoinSteps(steps) ==
  IF Len(steps) = 1 THEN steps[1]
  ELSE steps[1] \o "; " \o JoinSteps(Tail(steps))

\* substituteVariables on a docs location, a component at a time
substitutePath(location, projectName) ==
  [i \in 1..Len(location) |-> IF location[i] = "{{name}}" THEN projectName ELSE location[i]]

\* a resolution of relative locations against the working directory
ResolveDocsCwd(projectPath, location) ==
  IF Head(location) = "." THEN cwd \o Tail(location) ELSE location

\* resolve(projectPath, "./docs")
ResolveDocs(projectPath, location) ==
  IF Head(location) = "." THEN projectPath \o Tail(location) ELSE location

\* a decision that hears the flag only when the template declares nothing
shouldGitInitTemplateFirst(gitOpt, template) ==
  IF Has(template, "gitInit") THEN template["gitInit"]
  ELSE IF gitOpt # "unset" THEN gitOpt = "git"
  ELSE TRUE

\* options.git !== undefined ? options.git : (template.gitInit ?? true)
shouldGitInit(gitOpt, template) ==
  IF gitOpt # "unset" THEN gitOpt = "git"
  ELSE IF Has(template, "gitInit") THEN template["gitInit"] ELSE TRUE

CreateOutcome(result, exit, d, idx, fsx) ==
  [result |-> result, exit |-> exit, disk |-> d, idx |-> idx, fs |-> fsx]

\* a scaffolder that makes the destination directory before it loads the template
createProjectCommandEager(d, fsx, templateId, projectName, pathOpt, docsOpt, gitOpt, now, ok) ==
  IF templateId = "" THEN CreateOutcome("TemplateRequired", TRUE, d, 0, fsx)
  ELSE IF projectName = "" THEN CreateOutcome("NameRequired", TRUE, d, 0, fsx)
  ELSE IF templateId \notin TemplateIds
  THEN CreateOutcome("TemplateNotFound", TRUE, d, 0, Touch(fsx, {Join(cwd, projectName)}, now))
  ELSE
    LET template == Templates[templateId]
        projectPath == IF pathOpt # NoArg THEN pathOpt ELSE Join(cwd, projectName)
        docsPath == IF docsOpt # NoArg THEN docsOpt
                    ELSE IF Has(template, "docsLocation")
                    THEN ResolveDocs(projectPath,
                                     substitutePath(template["docsLocation"], projectName))
                    ELSE NoArg
        fs1 == Touch(fsx, {projectPath}, now)
        fs2 == Touch(fs1, {Join(projectPath, "README.md")}, now)
        fs3 == IF docsPath # NoArg /\ ~Exists(fs2, docsPath) /\ ok.docs
               THEN Touch(fs2, {docsPath}, now) ELSE fs2
        fs4 == IF shouldGitInit(gitOpt, template) /\ ok.git
               THEN Touch(fs3, {Join(projectPath, ".git")}, now) ELSE fs3
        ld == loadConfig(d)
        metadata == getDirectoryMetadata(fs4, projectPath, now)
        base == [name |-> projectName, path |-> projectPath, added |-> now,
                 lastModified |-> metadata.lastModified, size |-> metadata.size,
                 state |-> "active"]
        withDocs == IF docsPath # NoArg THEN Put(base, "docs", docsPath) ELSE base
        newProject == IF Has(template, "nextSteps")
                      THEN Put(withDocs, "nextSteps", JoinSteps(template["nextSteps"]))
                      ELSE withDocs
    IN IF Exists(fsx, projectPath) THEN CreateOutcome("DestinationExists", TRUE, d, 0, fsx)
       ELSE IF ~ok.mkdir THEN CreateOutcome("DirectoryCreateError", FALSE, d, 0, fsx)
       ELSE IF ~ok.copy THEN CreateOutcome("CopyError", FALSE, d, 0, fs1)
       ELSE IF ~ld.ok THEN CreateOutcome("ConfigCorrupt", TRUE, ld.disk, 0, fs4)
       ELSE CreateOutcome("ok", FALSE,
                          saveConfig([ld.config EXCEPT !.projects = Append(@, newProject)]),
                          Len(ld.config.projects) + 1, fs4)

\* a scaffolder that registers the project although the copy failed
createProjectCommandNoHalt(d, fsx, templateId, projectName, pathOpt, docsOpt, gitOpt, now, ok) ==
  IF templateId = "" THEN CreateOutcome("TemplateRequired", TRUE, d, 0, fsx)
  ELSE IF projectName = "" THEN CreateOutcome("NameRequired", TRUE, d, 0, fsx)
  ELSE IF templateId \notin TemplateIds THEN CreateOutcome("TemplateNotFound", TRUE, d, 0, fsx)
  ELSE
    LET template == Templates[templateId]
        projectPath == IF pathOpt # NoArg THEN pathOpt ELSE Join(cwd, projectName)
        docsPath == IF docsOpt # NoArg THEN docsOpt
                    ELSE IF Has(template, "docsLocation")
                    THEN ResolveDocs(projectPath,
                                     substitutePath(template["docsLocation"], projectName))
                    ELSE NoArg
        fs1 == Touch(fsx, {projectPath}, now)
        fs2 == Touch(fs1, {Join(projectPath, "README.md")}, now)
        fs3 == IF docsPath # NoArg /\ ~Exists(fs2, docsPath) /\ ok.docs
               THEN Touch(fs2, {docsPath}, now) ELSE fs2
        fs4 == IF shouldGitInit(gitOpt, template) /\ ok.git
               THEN Touch(fs3, {Join(projectPath, ".git")}, now) ELSE fs3
        ld == loadConfig(d)
        metadata == getDirectoryMetadata(fs4, projectPath, now)
        base == [name |-> projectName, path |-> projectPath, added |-> now,
                 lastModified |-> metadata.lastModified, size |-> metadata.size,
                 state |-> "active"]
        withDocs == IF docsPath # NoArg THEN Put(base, "docs", docsPath) ELSE base
        newProject == IF Has(template, "nextSteps")
                      THEN Put(withDocs, "nextSteps", JoinSteps(template["nextSteps"]))
                      ELSE withDocs
    IN IF Exists(fsx, projectPath) THEN CreateOutcome("DestinationExists", TRUE, d, 0, fsx)
       ELSE IF ~ok.mkdir THEN CreateOutcome("DirectoryCreateError", FALSE, d, 0, fsx)
       ELSE IF ~ok.copy
       THEN CreateOutcome("CopyError", FALSE,
                          saveConfig([ld.config EXCEPT !.projects = Append(@, newProject)]),
                          0, fs1)
       ELSE IF ~ld.ok THEN CreateOutcome("ConfigCorrupt", TRUE, ld.disk, 0, fs4)
       ELSE CreateOutcome("ok", FALSE,
                          saveConfig([ld.config EXCEPT !.projects = Append(@, newProject)]),
                          Len(ld.config.projects) + 1, fs4)

\* a scaffolder that gives up when the docs directory cannot be made
createProjectCommandStrict(d, fsx, templateId, projectName, pathOpt, docsOpt, gitOpt, now, ok) ==
  IF templateId = "" THEN CreateOutcome("TemplateRequired", TRUE, d, 0, fsx)
  ELSE IF projectName = "" THEN CreateOutcome("NameRequired", TRUE, d, 0, fsx)
  ELSE IF templateId \notin TemplateIds THEN CreateOutcome("TemplateNotFound", TRUE, d, 0, fsx)
  ELSE
    LET template == Templates[templateId]
        projectPath == IF pathOpt # NoArg THEN pathOpt ELSE Join(cwd, projectName)
        docsPath == IF docsOpt # NoArg THEN docsOpt
                    ELSE IF Has(template, "docsLocation")
                    THEN ResolveDocs(projectPath,
                                     substitutePath(template["docsLocation"], projectName))
                    ELSE NoArg
        fs1 == Touch(fsx, {projectPath}, now)
        fs2 == Touch(fs1, {Join(projectPath, "README.md")}, now)
        fs3 == IF docsPath # NoArg /\ ~Exists(fs2, docsPath) /\ ok.docs
               THEN Touch(fs2, {docsPath}, now) ELSE fs2
        fs4 == IF shouldGitInit(gitOpt, template) /\ ok.git
               THEN Touch(fs3, {Join(projectPath, ".git")}, now) ELSE fs3
        ld == loadConfig(d)
        metadata == getDirectoryMetadata(fs4, projectPath, now)
        base == [name |-> projectName, path |-> projectPath, added |-> now,
                 lastModified |-> metadata.lastModified, size |-> metadata.size,
                 state |-> "active"]
        withDocs == IF docsPath # NoArg THEN Put(base, "docs", docsPath) ELSE base
        newProject == IF Has(template, "nextSteps")
                      THEN Put(withDocs, "nextSteps", JoinSteps(template["nextSteps"]))
                      ELSE withDocs
    IN IF Exists(fsx, projectPath) THEN CreateOutcome("DestinationExists", TRUE, d, 0, fsx)
       ELSE IF ~ok.mkdir THEN CreateOutcome("DirectoryCreateError", FALSE, d, 0, fsx)
       ELSE IF ~ok.copy THEN CreateOutcome("CopyError", FALSE, d, 0, fs1)
       ELSE IF docsPath # NoArg /\ ~Exists(fs2, docsPath) /\ ~ok.docs
       THEN CreateOutcome("DocsCreateError", FALSE, d, 0, fs2)
       ELSE IF ~ld.ok THEN CreateOutcome("ConfigCorrupt", TRUE, ld.disk, 0, fs4)
       ELSE CreateOutcome("ok", FALSE,
                          saveConfig([ld.config EXCEPT !.projects = Append(@, newProject)]),
                          Len(ld.config.projects) + 1, fs4)

createProjectCommand(d, fsx, templateId, projectName, pathOpt, docsOpt, gitOpt, now, ok) ==
  IF templateId = "" THEN CreateOutcome("TemplateRequired", TRUE, d, 0, fsx)
  ELSE IF projectName = "" THEN CreateOutcome("NameRequired", TRUE, d, 0, fsx)
  ELSE IF templateId \notin TemplateIds THEN CreateOutcome("TemplateNotFound", TRUE, d, 0, fsx)
  ELSE
    LET template == Templates[templateId]
        projectPath == IF pathOpt # NoArg THEN pathOpt ELSE Join(cwd, projectName)
        docsPath == IF docsOpt # NoArg THEN docsOpt
                    ELSE IF Has(template, "docsLocation")
                    THEN ResolveDocs(projectPath,
                                     substitutePath(template["docsLocation"], projectName))
                    ELSE NoArg
        fs1 == Touch(fsx, {projectPath}, now)
        fs2 == Touch(fs1, {Join(projectPath, "README.md")}, now)
        fs3 == IF docsPath # NoArg /\ ~Exists(fs2, docsPath) /\ ok.docs
               THEN Touch(fs2, {docsPath}, now) ELSE fs2
        fs4 == IF shouldGitInit(gitOpt, template) /\ ok.git
               THEN Touch(fs3, {Join(projectPath, ".git")}, now) ELSE fs3
        ld == loadConfig(d)
        metadata == getDirectoryMetadata(fs4, projectPath, now)
        base == [name |-> projectName, path |-> projectPath, added |-> now,
                 lastModified |-> metadata.lastModified, size |-> metadata.size,
                 state |-> "active"]
        withDocs == IF docsPath # NoArg THEN Put(base, "docs", docsPath) ELSE base
        newProject == IF Has(template, "nextSteps")
                      THEN Put(withDocs, "nextSteps", JoinSteps(template["nextSteps"]))
                      ELSE withDocs
    IN IF Exists(fsx, projectPath) THEN CreateOutcome("DestinationExists", TRUE, d, 0, fsx)
       ELSE IF ~ok.mkdir THEN CreateOutcome("DirectoryCreateError", FALSE, d, 0, fsx)
       ELSE IF ~ok.copy THEN CreateOutcome("CopyError", FALSE, d, 0, fs1)
       ELSE IF ~ld.ok THEN CreateOutcome("ConfigCorrupt", TRUE, ld.disk, 0, fs4)
       ELSE CreateOutcome("ok", FALSE,
                          saveConfig([ld.config EXCEPT !.projects = Append(@, newProject)]),
                          Len(ld.config.projects) + 1, fs4)

(***************************************************************************)
(* Field updates (CLI): set-category, set-description, set-visibility,     *)
(* set-repo, set-next-steps                                                *)
(***************************************************************************)
UpdateFields == {"category", "description", "visibility", "repoUrl", "nextSteps"}

setField(d, name, field, value) ==
  IF IsBlank(name) THEN Outcome("NameRequired", TRUE, d, 0)
  ELSE IF IsBlank(value) THEN Outcome("ValueRequired", TRUE, d, 0)
  ELSE
    LET ld == loadConfig(d)
        i == FindIndex(ld.config.projects, name)
    IN IF ~ld.ok THEN Outcome("ConfigCorrupt", TRUE, ld.disk, 0)
       ELSE IF i = 0 THEN Outcome("ProjectNotFound", TRUE, ld.disk, 0)
       ELSE Outcome("ok", FALSE,
                    saveConfig([ld.config EXCEPT !.projects[i] = Put(@, field, value)]),
                    i)

(***************************************************************************)
(* list                                                                    *)
(***************************************************************************)
ListFilters == {"all", "completed", "paused", "archived", "default"}

refreshMetadata(project, fsx, now) ==
  IF Exists(fsx, project["path"])
  THEN LET metadata == getDirectoryMetadata(fsx, project["path"], now)
       IN Put(Put(project, "lastModified", metadata.lastModified), "size", metadata.size)
  ELSE project

Shown(project, filter) ==
  CASE filter = "all" -> TRUE
    [] filter = "default" -> StateOr(project) = "active"
    [] OTHER -> StateOr(project) = filter

\* a list that saves the records it showed
listProjectsSavesShown(d, fsx, filter, now) ==
  LET ld == loadConfig(d)
      updatedProjects == [i \in 1..Len(ld.config.projects) |->
                            refreshMetadata(ld.config.projects[i], fsx, now)]
      filteredProjects == SelectSeq(updatedProjects, LAMBDA p : Shown(p, filter))
  IN IF ~ld.ok THEN Outcome("ConfigCorrupt", TRUE, ld.disk, 0)
     ELSE IF Len(ld.config.projects) = 0 THEN Outcome("Empty", FALSE, ld.disk, 0)
     ELSE IF Len(filteredProjects) = 0 THEN Outcome("NoMatch", FALSE, ld.disk, 0)
     ELSE Outcome("ok", FALSE, saveConfig([ld.config EXCEPT !.projects = filteredProjects]), 0)

listProjects(d, fsx, filter, now) ==
  LET ld == loadConfig(d)
      updatedProjects == [i \in 1..Len(ld.config.projects) |->
                            refreshMetadata(ld.config.projects[i], fsx, now)]
      filteredProjects == SelectSeq(updatedProjects, LAMBDA p : Shown(p, filter))
  IN IF ~ld.ok THEN Outcome("ConfigCorrupt", TRUE, ld.disk, 0)
     ELSE IF Len(ld.config.projects) = 0 THEN Outcome("Empty", FALSE, ld.disk, 0)
     ELSE IF Len(filteredProjects) = 0 THEN Outcome("NoMatch", FALSE, ld.disk, 0)
     ELSE Outcome("ok", FALSE, saveConfig([ld.config EXCEPT !.projects = updatedProjects]), 0)

\* what list writes to standard output: a JSON document, plain text, or
\* nothing (the message for an empty store goes to standard error)
listOutput(d, fsx, filter, json, now) ==
  LET result == listProjects(d, fsx, filter, now).result
  IN CASE result = "ConfigCorrupt" -> "none"
       [] result = "Empty" -> IF json THEN "json" ELSE "none"
       [] result = "NoMatch" -> "text"
       [] OTHER -> IF json THEN "json" ELSE "text"

(***************************************************************************)
(* MCP adapter: update_project_state, update_project_field                 *)
(***************************************************************************)
getDirectorySize(fsx, p) == IF Exists(fsx, p) THEN Cardinality(Entries(fsx, p)) ELSE 0

updateProjectTimestamp(project, fsx, now) ==
  Put(Put(project, "lastModified", now), "size", getDirectorySize(fsx, project["path"]))

\* the completedAt expression of the handler: a fresh date, or the old value
mcpCompletedAt(project, newState, now) ==
  IF newState = "completed" THEN now
  ELSE IF Has(project, "completedAt") THEN project["completedAt"] ELSE Undefined

mcpUpdateState(d, fsx, projectName, newState, now) ==
  LET ld == loadConfig(d)
      projectIndex == FindIndex(ld.config.projects, projectName)
  IN IF ~ld.ok THEN Outcome("ConfigCorrupt", FALSE, ld.disk, 0)
     ELSE IF projectIndex = 0 THEN Outcome("ProjectNotFound", FALSE, ld.disk, 0)
     ELSE Outcome("ok", FALSE,
                  saveConfig([ld.config EXCEPT !.projects[projectIndex] =
                    updateProjectTimestamp(
                      Put(Put(@, "state", newState),
                          "completedAt", mcpCompletedAt(@, newState, now)),
                      fsx, now)]),
                  projectIndex)

mcpUpdateField(d, fsx, projectName, field, value, now) ==
  LET ld == loadConfig(d)
      projectIndex == FindIndex(ld.config.projects, projectName)
  IN IF ~ld.ok THEN Outcome("ConfigCorrupt", FALSE, ld.disk, 0)
     ELSE IF projectIndex = 0 THEN Outcome("ProjectNotFound", FALSE, ld.disk, 0)
     ELSE Outcome("ok", FALSE,
                  saveConfig([ld.config EXCEPT !.projects[projectIndex] =
                    updateProjectTimestamp(Put(@, field, value), fsx, now)]),
                  projectIndex)

(***************************************************************************)
(* Inputs of the commands                                                  *)
(***************************************************************************)
Names == {"a", "b"}

NameArgs == Names \cup {""}

PathArgs == {NoArg, <<"w", "a">>, <<"w", "x">>}

DocsArgs == {NoArg, <<"w", "x">>}

ValueArgs == {"v", ""}

TemplateArgs == {"basic", "nope"}

GitArgs == {"unset", "git", "no-git"}

AllOk == [mkdir |-> TRUE, copy |-> TRUE, docs |-> TRUE, git |-> TRUE]

\* every step succeeds, or exactly one of them fails
StepOutcomes == {AllOk} \cup {[AllOk EXCEPT ![k] = FALSE] : k \in DOMAIN AllOk}

\* also: the docs directory and the repository both fail
ScaffoldOutcomes == StepOutcomes \cup {[AllOk EXCEPT !.docs = FALSE, !.git = FALSE]}

\* the arguments of a command that was not create
NoArgs == [template |-> "", path |-> NoArg, docs |-> NoArg, git |-> "", ok |-> AllOk]

LifecycleFields == {"category"}

InitialFs == [p \in {<<"w">>, <<"w", "a">>, <<"w", "a", ".git">>} |-> 0]

(***************************************************************************)
(* Bookkeeping of a step                                                   *)
(***************************************************************************)
Before(idx) ==
  IF idx \in 1..Len(Projects(disk)) THEN Projects(disk)[idx] ELSE NoRecord

\* what a reader saw of the state and completion date of a record
Summary(r) ==
  [state |-> StateOr(r),
   completedAt |-> IF Has(r, "completedAt") THEN r["completedAt"] ELSE Undefined]

NoSummary == [state |-> "", completedAt |-> Undefined]

Was(idx) == IF Before(idx) = NoRecord THEN NoSummary ELSE Summary(Before(idx))

\* the store file holds no readable project sequence
Corrupt(d) == d.kind \in {"garbage", "noprojects"}

\* broken: the store file the command started from was corrupt;
\* found: the name matched a record of the store the command started from;
\* kept: the command left the persisted project sequence as it was;
\* touched: the command changed the store file;
\* bad: the arguments are ones the CLI command for the same change rejects;
\* json: the command was given --json; stdout: what it wrote to standard output;
\* args: what create was called with, and which of its steps the system let succeed
Record(op, via, name, out) ==
  [op |-> op, via |-> via, name |-> name, result |-> out.result, exit |-> out.exit,
   idx |-> out.idx, was |-> Was(out.idx),
   broken |-> Corrupt(disk),
   found |-> FindIndex(Projects(disk), name) # 0,
   kept |-> Projects(out.disk) = Projects(disk),
   touched |-> out.disk # disk,
   bad |-> FALSE, json |-> FALSE, stdout |-> "", args |-> NoArgs]

\* the store a step leaves holds at most n records
Within(n) == Len(Projects(disk')) <= n

\* done/arch after a lifecycle request for newState that reached record idx
Transition(out, newState) ==
  IF out.result # "ok" THEN UNCHANGED <<done, arch>>
  ELSE
    /\ done' = [done EXCEPT ![out.idx] =
                  IF newState = "completed" THEN TRUE
                  ELSE IF newState \in {"paused", "active"} THEN FALSE
                  ELSE @]
    /\ arch' = [arch EXCEPT ![out.idx] =
                  IF newState # "archived" THEN FALSE
                  ELSE IF StateOr(Before(out.idx)) = "archived" THEN @
                  ELSE StateOr(Before(out.idx)) = "completed"]

\* done/arch when records were appended
Appended(out) ==
  LET n == Len(Projects(out.disk))
  IN /\ done' = [i \in 1..n |-> IF i <= Len(done) THEN done[i] ELSE FALSE]
     /\ arch' = [i \in 1..n |-> IF i <= Len(arch) THEN arch[i] ELSE FALSE]

NoMem == [held |-> FALSE, config |-> defaultConfig]

NoHist == [prev |-> "init", replaced |-> FALSE]

\* an invocation: idle, then loaded (it holds what loadConfig returned),
\* then saved; seen is the store file as its load found it, stale is
\* whether the other invocation has saved since
Idle == [pc |-> "idle", cmd |-> "", seen |-> Absent, result |-> "", stale |-> FALSE]

NoInv == [of |-> <<Idle, Idle>>, saver |-> 0]

NoCall == [fn |-> "none"]

NoLast ==
  [op |-> "init", via |-> "", name |-> "", result |-> "", exit |-> FALSE,
   idx |-> 0, was |-> NoSummary, broken |-> FALSE, found |-> FALSE, kept |-> TRUE, touched |-> FALSE,
   bad |-> FALSE, json |-> FALSE, stdout |-> "", args |-> NoArgs]

(***************************************************************************)
(* Steps: one per command                                                  *)
(***************************************************************************)
\* time passes between two commands
Tick ==
  /\ clock < MaxClock
  /\ clock' = clock + 1
  /\ last' = NoLast
  /\ UNCHANGED <<disk, fs, done, arch, mem, hist, inv, call>>

Lifecycle(op, name) ==
  LET out == setProjectState(disk, name, TargetState(op), ClearFlag(op), clock)
  IN /\ disk' = out.disk
     /\ last' = Record(op, "cli", name, out)
     /\ Transition(out, TargetState(op))
     /\ UNCHANGED <<fs, clock, mem, hist, inv, call>>

McpUpdateState(name, newState) ==
  LET out == mcpUpdateState(disk, fs, name, newState, clock)
  IN /\ disk' = out.disk
     /\ last' = [Record(newState, "mcp", name, out) EXCEPT
                    !.bad = IsBlank(name) \/ newState \notin ProjectState]
     /\ Transition(out, newState)
     /\ UNCHANGED <<fs, clock, mem, hist, inv, call>>

Add(name, pathArg, docsPath) ==
  LET out == addProject(disk, fs, name, pathArg, docsPath, clock)
  IN /\ disk' = out.disk
     /\ last' = Record("add", "cli", name, out)
     /\ Appended(out)
     /\ UNCHANGED <<fs, clock, mem, hist, inv, call>>

Remove(name) ==
  LET out == removeProject(disk, name)
  IN /\ disk' = out.disk
     /\ last' = Record("remove", "cli", name, out)
     /\ done' = IF out.result = "ok" THEN RemoveAt(done, out.idx) ELSE done
     /\ arch' = IF out.result = "ok" THEN RemoveAt(arch, out.idx) ELSE arch
     /\ UNCHANGED <<fs, clock, mem, hist, inv, call>>

Scan(dirPath) ==
  LET out == scanDirectory(disk, fs, dirPath, clock)
  IN /\ disk' = out.disk
     /\ last' = Record("scan", "cli", "", out)
     /\ Appended(out)
     /\ UNCHANGED <<fs, clock, mem, hist, inv, call>>

CreateAt(templateId, name, pathOpt, docsOpt, gitOpt, ok) ==
  LET out == createProjectCommand(disk, fs, templateId, name, pathOpt, docsOpt, gitOpt, clock, ok)
  IN /\ disk' = out.disk
     /\ fs' = out.fs
     /\ last' = [Record("create", "cli", name, out) EXCEPT
                    !.args = [template |-> templateId, path |-> pathOpt, docs |-> docsOpt,
                              git |-> gitOpt, ok |-> ok]]
     /\ Appended(out)
     /\ UNCHANGED <<clock, mem, hist, inv, call>>

Create(templateId, name, gitOpt, ok) == CreateAt(templateId, name, NoArg, NoArg, gitOpt, ok)

SetField(name, field, value) ==
  LET out == setField(disk, name, field, value)
  IN /\ disk' = out.disk
     /\ last' = Record("set-field", "cli", name, out)
     /\ UNCHANGED <<fs, clock, done, arch, mem, hist, inv, call>>

McpUpdateField(name, field, value) ==
  LET out == mcpUpdateField(disk, fs, name, field, value, clock)
  IN /\ disk' = out.disk
     /\ last' = [Record("update-field", "mcp", name, out) EXCEPT
                    !.bad = field \notin UpdateFields \/ IsBlank(name) \/ IsBlank(value)]
     /\ UNCHANGED <<fs, clock, done, arch, mem, hist, inv, call>>

List(filter, json) ==
  LET out == listProjects(disk, fs, filter, clock)
  IN /\ disk' = out.disk
     /\ last' = [Record("list", "cli", "", out) EXCEPT
                    !.json = json, !.stdout = listOutput(disk, fs, filter, json, clock)]
     /\ UNCHANGED <<fs, clock, done, arch, mem, hist, inv, call>>

Init ==
  /\ disk \in {Absent, Garbage, NoProjects}
  /\ fs = InitialFs
  /\ clock = 0
  /\ last = NoLast
  /\ done = <<>>
  /\ arch = <<>>
  /\ mem = NoMem
  /\ hist = NoHist
  /\ inv = NoInv
  /\ call = NoCall

Next ==
  \/ Tick
  \/ \E op \in LifecycleOps, name \in NameArgs : Lifecycle(op, name)
  \/ \E name \in NameArgs, newState \in ProjectState : McpUpdateState(name, newState)
  \/ \E name \in {"a", ""}, pathArg \in PathArgs :
       Add(name, pathArg, NoArg) /\ Within(MaxProjects)
  \/ \E name \in NameArgs : Remove(name)
  \/ \E dirPath \in {NoArg, cwd} : Scan(dirPath) /\ Within(MaxProjects)
  \/ \E templateId \in TemplateArgs, name \in {"b", ""} :
       Create(templateId, name, "no-git", AllOk) /\ Within(MaxProjects)
  \/ \E name \in NameArgs, field \in LifecycleFields, value \in ValueArgs : SetField(name, field, value)
  \/ \E name \in NameArgs, field \in LifecycleFields : McpUpdateField(name, field, "v")
  \/ \E filter \in ListFilters, json \in BOOLEAN : List(filter, json)

Spec == Init /\ [][Next]_vars

(***************************************************************************)
(* The project sequence: the commands that create, remove and edit records *)
(* on a store that holds several of them.  Time stands still here; what is *)
(* followed is which records the sequence holds and in what order.         *)
(***************************************************************************)
InitSeq ==
  /\ disk = Absent
  /\ fs = InitialFs
  /\ clock = 0
  /\ last = NoLast
  /\ done = <<>>
  /\ arch = <<>>
  /\ mem = NoMem
  /\ hist = NoHist
  /\ inv = NoInv
  /\ call = NoCall

NextSeq ==
  \/ \E name \in Names : Add(name, cwd, NoArg) /\ Within(MaxStore)
  \/ Scan(cwd) /\ Within(MaxStore)
  \/ Create("basic", "b", "no-git", AllOk) /\ Within(MaxStore)
  \/ \E name \in Names : Remove(name)
  \/ \E op \in {"complete", "reactivate"}, name \in Names : Lifecycle(op, name)
  \/ \E name \in Names : SetField(name, "category", "v")
  \/ \E filter \in {"all", "default"} : List(filter, FALSE)

SpecSeq == InitSeq /\ [][NextSeq]_vars

(***************************************************************************)
(* The MCP adapter next to the CLI, on one tracked directory.  The handler *)
(* takes name, state, field and value from the request as they come, so    *)
(* the requests include ones outside the tool's declared schema; the       *)
(* tracked directory can be deleted behind the store's back.               *)
(***************************************************************************)
\* rm -rf p
Rmdir(p) ==
  /\ Exists(fs, p)
  /\ fs' = [q \in {x \in DOMAIN fs : ~(Len(x) >= Len(p) /\ SubSeq(x, 1, Len(p)) = p)} |-> fs[q]]
  /\ last' = NoLast
  /\ UNCHANGED <<disk, clock, done, arch, mem, hist, inv, call>>

\* the value of a request that names a timestamp field: a date string
DateArg == 0

McpStateArgs == ProjectState \cup {"bogus"}

NextAdapter ==
  \/ Tick
  \/ Rmdir(<<"w", "a">>)
  \/ Add("a", <<"w", "a">>, NoArg) /\ Within(MaxProjects)
  \/ \E op \in LifecycleOps : Lifecycle(op, "a")
  \/ \E value \in ValueArgs : SetField("a", "category", value)
  \/ List("all", FALSE)
  \/ \E name \in {"a", ""}, newState \in McpStateArgs : McpUpdateState(name, newState)
  \/ \E name \in {"a", ""}, value \in ValueArgs : McpUpdateField(name, "category", value)
  \/ McpUpdateField("a", "added", DateArg)

SpecAdapter == InitSeq /\ [][NextAdapter]_vars

(***************************************************************************)
(* Two invocations at once.  A command reads the store file when it calls  *)
(* loadConfig and writes it when it calls saveConfig; another process can  *)
(* run between the two.  Each invocation changes the record named a.       *)
(***************************************************************************)
Invocations == {1, 2}

RaceCmds == LifecycleOps \cup {"set-category"}

TrackedRecord ==
  [name |-> "a", path |-> <<"w", "a">>, added |-> 0, lastModified |-> 0, size |-> 1]

RaceStores ==
  {Doc("1.0.0", <<TrackedRecord>>),
   Doc("1.0.0", <<Put(Put(TrackedRecord, "state", "completed"), "completedAt", 0)>>)}

\* the command cmd run from loadConfig to saveConfig on the store file d
RunOn(cmd, d, now) ==
  IF cmd \in LifecycleOps
  THEN setProjectState(d, "a", TargetState(cmd), ClearFlag(cmd), now)
  ELSE setField(d, "a", "category", "v")

\* an invocation that reads the store file again before it writes
SeenFresh(i) == disk

\* the store file an invocation works from: the one its loadConfig read
Seen(i) == inv.of[i].seen

\* invocation i starts cmd and gets as far as the return of loadConfig
Load(i, cmd) ==
  LET ld == loadConfig(disk)
  IN /\ inv.of[i].pc = "idle"
     /\ disk' = ld.disk
     /\ inv' = [inv EXCEPT !.of[i] =
                  [pc |-> "loaded", cmd |-> cmd, seen |-> ld.disk, result |-> "", stale |-> FALSE]]
     /\ UNCHANGED <<fs, clock, last, done, arch, mem, hist, call>>

\* invocation i goes on from the loaded config to the end of the command
Save(i) ==
  LET out == RunOn(inv.of[i].cmd, Seen(i), clock)
      wrote == out.result = "ok"
  IN /\ inv.of[i].pc = "loaded"
     /\ disk' = IF wrote THEN out.disk ELSE disk
     /\ inv' = [of |-> [j \in 1..2 |->
                          IF j = i
                          THEN [inv.of[j] EXCEPT !.pc = "saved", !.result = out.result]
                          ELSE IF wrote /\ inv.of[j].pc = "loaded"
                          THEN [inv.of[j] EXCEPT !.stale = TRUE]
                          ELSE inv.of[j]],
                 saver |-> IF wrote THEN i ELSE inv.saver]
     /\ UNCHANGED <<fs, clock, last, done, arch, mem, hist, call>>

InitRace ==
  /\ disk \in RaceStores
  /\ fs = InitialFs
  /\ clock = 0
  /\ last = NoLast
  /\ done = <<FALSE>>
  /\ arch = <<FALSE>>
  /\ mem = NoMem
  /\ hist = NoHist
  /\ inv = NoInv
  /\ call = NoCall

NextRace ==
  \/ \E i \in Invocations, cmd \in RaceCmds : Load(i, cmd)
  \/ \E i \in Invocations : Save(i)

SpecRace == InitRace /\ [][NextRace]_vars

(***************************************************************************)
(* The scaffolder: create with every template, flag and docs option, and   *)
(* with each of its steps (mkdir, copy, docs directory, git init) failing. *)
(***************************************************************************)
NextCreate ==
  \/ Add("a", <<"w", "a">>, NoArg) /\ Within(MaxStore)
  \/ Lifecycle("complete", "a")
  \/ \E templateId \in TemplateIds \cup {"nope"}, gitOpt \in GitArgs :
       CreateAt(templateId, "b", NoArg, NoArg, gitOpt, AllOk) /\ Within(MaxStore)
  \/ \E templateId \in TemplateIds, docsOpt \in DocsArgs, ok \in ScaffoldOutcomes :
       CreateAt(templateId, "b", NoArg, docsOpt, "unset", ok) /\ Within(MaxStore)
  \/ CreateAt("plain", "b", <<"w", "c">>, NoArg, "unset", AllOk) /\ Within(MaxStore)

SpecCreate == InitSeq /\ [][NextCreate]_vars

(***************************************************************************)
(* The registry commands add, scan and list on a store of several records, *)
(* with every way an argument can be wrong, a store written by the first   *)
(* release, two directories that look like projects, time passing and the  *)
(* tracked directory changing between commands.                            *)
(***************************************************************************)
RegistryNames == {"a", "b", "", " "}

RegistryPaths == {NoArg, <<"w", "a">>, <<"w", "x">>}

RegistryDocs == {NoArg, <<"w", "b">>, <<"w", "x">>}

ScanArgs == {NoArg, cwd, <<"w", "x">>}

RegistryFs ==
  [p \in {<<"w">>, <<"w", "a">>, <<"w", "a", ".git">>, <<"w", "b">>, <<"w", "b", "Makefile">>}
     |-> 0]

\* a record as the first release stored it: no state
FirstReleaseRecord == [name |-> "a", path |-> <<"w", "a">>, added |-> 0, lastModified |-> 0]

RegistryStores == {Absent, Doc("1.0.0", <<>>), Doc("1.0.0", <<FirstReleaseRecord>>)}

\* a file is written into directory p
WriteInto(p) ==
  /\ Exists(fs, p)
  /\ ~Exists(fs, Join(p, "f"))
  /\ fs' = [q \in DOMAIN fs \cup {Join(p, "f")} |-> IF q \in {p, Join(p, "f")} THEN clock ELSE fs[q]]
  /\ last' = NoLast
  /\ UNCHANGED <<disk, clock, done, arch, mem, hist, inv, call>>

InitRegistry ==
  /\ disk \in RegistryStores
  /\ fs = RegistryFs
  /\ clock = 0
  /\ last = NoLast
  /\ done = [i \in 1..Len(Projects(disk)) |-> FALSE]
  /\ arch = [i \in 1..Len(Projects(disk)) |-> FALSE]
  /\ mem = NoMem
  /\ hist = NoHist
  /\ inv = NoInv
  /\ call = NoCall

NextRegistry ==
  \/ Tick
  \/ WriteInto(<<"w", "a">>)
  \/ \E name \in RegistryNames, pathArg \in RegistryPaths :
       Add(name, pathArg, NoArg) /\ Within(MaxRecs)
  \/ \E docsPath \in RegistryDocs : Add("b", <<"w", "a">>, docsPath) /\ Within(MaxRecs)
  \/ \E dirPath \in ScanArgs : Scan(dirPath) /\ Within(MaxRecs)
  \/ Lifecycle("complete", "a")
  \/ Lifecycle("pause", "b")
  \/ \E filter \in ListFilters : List(filter, FALSE)

SpecRegistry == InitRegistry /\ [][NextRegistry]_vars

(***************************************************************************)
(* Variable substitution.  A text is a sequence of tokens: a stretch of    *)
(* other text, a placeholder {{key}}, or the replacement pattern $& that   *)
(* String.prototype.replace expands to the matched substring.  A variables *)
(* mapping is the sequence of its entries, in the order Object.entries     *)
(* yields them.                                                            *)
(***************************************************************************)
Placeholder(key) == "{{" \o key \o "}}"

RECURSIVE Flatten(_)
Flatten(ss) == IF ss = <<>> THEN <<>> ELSE Head(ss) \o Flatten(Tail(ss))

\* the replacement string as replace() inserts it for the match
Expand(value, matched) ==
  [i \in 1..Len(value) |-> IF value[i] = "$&" THEN matched ELSE value[i]]

\* result.replace(new RegExp("\\{\\{key\\}\\}", "g"), value)
ReplaceAll(text, key, value) ==
  Flatten([i \in 1..Len(text) |->
             IF text[i] = Placeholder(key) THEN Expand(value, text[i]) ELSE <<text[i]>>])

RECURSIVE substituteVariables(_, _)
substituteVariables(content, variables) ==
  IF variables = <<>> THEN content
  ELSE LET entry == Head(variables)
       IN substituteVariables(
            IF entry.defined THEN ReplaceAll(content, entry.key, entry.value) ELSE content,
            Tail(variables))

Entry(key, value) == [key |-> key, defined |-> TRUE, value |-> value]

UndefinedEntry(key) == [key |-> key, defined |-> FALSE, value |-> <<>>]

ContentTokens == {"t", "{{name}}", "{{date}}", "{{unknown}}"}

ContentInputs == UNION {[1..k -> ContentTokens] : k \in 0..MaxLen}

NameValues == {<<"v">>, <<>>, <<"v", "{{date}}">>, <<"{{name}}">>, <<"$&">>}

DateValues == {<<"d">>, <<"{{name}}">>}

\* name and date, each absent, undefined, or defined
VariableInputs ==
  {n \o d : n \in {<<>>, <<UndefinedEntry("name")>>} \cup {<<Entry("name", v)>> : v \in NameValues},
            d \in {<<>>, <<UndefinedEntry("date")>>} \cup {<<Entry("date", v)>> : v \in DateValues}}

Substitute ==
  /\ call.fn = "substituteVariables"
  /\ ~call.returned
  /\ call' = [call EXCEPT !.returned = TRUE,
                          !.output = substituteVariables(call.content, call.variables)]
  /\ UNCHANGED <<disk, fs, clock, last, done, arch, mem, hist, inv>>

InitSubst ==
  /\ disk = Absent
  /\ fs = InitialFs
  /\ clock = 0
  /\ last = NoLast
  /\ done = <<>>
  /\ arch = <<>>
  /\ mem = NoMem
  /\ hist = NoHist
  /\ inv = NoInv
  /\ call \in {[fn |-> "substituteVariables", content |-> c, variables |-> v,
                 returned |-> FALSE, output |-> <<>>] :
                c \in ContentInputs, v \in VariableInputs}

NextSubst == Substitute

SpecSubst == InitSubst /\ [][NextSubst]_vars

(***************************************************************************)
(* Copying a template's files.  A tree maps each path that exists to its   *)
(* node; a path is the sequence of its entry names, an entry name is its   *)
(* stem and its extension (the text from the last dot on, "" when the name *)
(* has no dot).  A file's content is a text as above.                      *)
(***************************************************************************)
EntryName(stem, ext) == [stem |-> stem, ext |-> ext]

DirNode == [kind |-> "dir", content |-> <<>>]

FileNode(content) == [kind |-> "file", content |-> content]

\* a symbolic link, socket or device: neither isDirectory() nor isFile()
OtherNode == [kind |-> "other", content |-> <<>>]

binaryExtensions ==
  {".png", ".jpg", ".jpeg", ".gif", ".ico", ".webp", ".pdf", ".zip", ".tar", ".gz",
   ".exe", ".dll", ".so", ".dylib", ".woff", ".woff2", ".ttf", ".eot"}

\* String.prototype.toLowerCase on the extensions the trees use
toLowerCase(ext) == IF ext = ".PNG" THEN ".png" ELSE ext

\* for a name without a dot the slice is the tail of the path from an earlier
\* dot, or the last character: never an entry of the list
isBinaryFile(filePath) ==
  LET name == filePath[Len(filePath)]
  IN name.ext # "" /\ toLowerCase(name.ext) \in binaryExtensions

IsUnder(path, dir) ==
  Len(path) >= Len(dir) /\ SubSeq(path, 1, Len(dir)) = dir

\* the names readdirSync(dir) returns
readdirSync(tree, dir) ==
  {path[Len(path)] : path \in {q \in DOMAIN tree : Len(q) = Len(dir) + 1 /\ IsUnder(q, dir)}}

\* mkdirSync(dir, { recursive: true })
mkdirRecursive(tree, dir) ==
  LET missing == {SubSeq(dir, 1, k) : k \in 1..Len(dir)} \ DOMAIN tree
  IN [path \in DOMAIN tree \cup missing |-> IF path \in missing THEN DirNode ELSE tree[path]]

writeFile(tree, path, content) ==
  [q \in DOMAIN tree \cup {path} |-> IF q = path THEN FileNode(content) ELSE tree[q]]

CopyFileSubstituted(srcPath, content, variables) ==
  substituteVariables(content, variables)

\* what the copy of one file holds
CopyFile(srcPath, content, variables) ==
  IF isBinaryFile(srcPath) THEN content ELSE substituteVariables(content, variables)

RECURSIVE copyRecursive(_, _, _, _, _)
RECURSIVE copyEntries(_, _, _, _, _, _)
copyRecursive(src, srcDir, dest, destDir, variables) ==
  LET made == IF destDir \in DOMAIN dest THEN dest ELSE mkdirRecursive(dest, destDir)
  IN copyEntries(src, srcDir, made, destDir, variables, readdirSync(src, srcDir))

copyEntries(src, srcDir, dest, destDir, variables, entries) ==
  IF entries = {} THEN dest
  ELSE LET entry == CHOOSE e \in entries : TRUE
           srcPath == Append(srcDir, entry)
           destPath == Append(destDir, entry)
           after == IF src[srcPath].kind = "dir"
                      THEN copyRecursive(src, srcPath, dest, destPath, variables)
                    ELSE IF src[srcPath].kind = "file"
                      THEN writeFile(dest, destPath,
                                     CopyFile(srcPath, src[srcPath].content, variables))
                    ELSE dest
       IN copyEntries(src, srcDir, after, destDir, variables, entries \ {entry})

copyTemplateFiles(src, filesDir, dest, destPath, variables) ==
  IF filesDir \notin DOMAIN src THEN dest
  ELSE copyRecursive(src, filesDir, dest, destPath, variables)

\* <templateDir>/files and the destination of the copy
FilesDir == <<EntryName("template", ""), EntryName("files", "")>>

DestPath == <<EntryName("work", ""), EntryName("dest", "")>>

Elsewhere == <<EntryName("work", ""), EntryName("notes", ".md")>>

SrcDirName == EntryName("src", "")

\* what a template's files directory can hold, relative to it
TemplateEntries ==
  {<<EntryName("README", ".md")>>, <<EntryName("logo", ".png")>>,
   <<EntryName("Makefile", "")>>, <<EntryName("empty", "")>>, <<EntryName("link", "")>>,
   <<SrcDirName>>, <<SrcDirName, EntryName("index", ".ts")>>,
   <<SrcDirName, EntryName("IMG", ".PNG")>>}

NodeOf(rel, content) ==
  IF rel \in {<<EntryName("empty", "")>>, <<SrcDirName>>} THEN DirNode
  ELSE IF rel = <<EntryName("link", "")>> THEN OtherNode
  ELSE FileNode(content)

\* the sets of entries in which every entry's directory is present
TemplateShapes ==
  {shape \in SUBSET TemplateEntries :
     \A rel \in shape : Len(rel) = 2 => <<SrcDirName>> \in shape}

FileContents == {<<"t", "{{name}}">>, <<"{{date}}", "{{unknown}}", "{{name}}">>}

\* the template directory, with or without its files directory
TemplateTree(hasFiles, shape, content) ==
  LET paths == {<<EntryName("template", "")>>}
                 \cup (IF hasFiles THEN {FilesDir} \cup {FilesDir \o rel : rel \in shape} ELSE {})
  IN [path \in paths |->
        IF Len(path) <= 2 THEN DirNode ELSE NodeOf(SubSeq(path, 3, Len(path)), content)]

TemplateTrees ==
  {TemplateTree(TRUE, shape, content) : shape \in TemplateShapes, content \in FileContents}
    \cup {TemplateTree(FALSE, {}, <<>>)}

\* the filesystem the copy writes to, the destination made beforehand or not
DestinationTree(hasDest) ==
  LET paths == {<<EntryName("work", "")>>, Elsewhere} \cup (IF hasDest THEN {DestPath} ELSE {})
  IN [path \in paths |-> IF path = Elsewhere THEN FileNode(<<"t", "{{name}}">>) ELSE DirNode]

\* name, location, docs and date are all set; name and date occur in the files
FullVariables ==
  {<<Entry("name", n), Entry("location", <<"l">>), Entry("docs", <<>>), Entry("date", <<"d">>)>> :
     n \in {<<"v">>, <<"v", "{{date}}">>}}

CopyTemplate ==
  /\ call.fn = "copyTemplateFiles"
  /\ ~call.returned
  /\ call' = [call EXCEPT !.returned = TRUE,
                          !.after = copyTemplateFiles(call.src, FilesDir, call.before,
                                                      DestPath, call.variables)]
  /\ UNCHANGED <<disk, fs, clock, last, done, arch, mem, hist, inv>>

InitCopy ==
  /\ disk = Absent
  /\ fs = InitialFs
  /\ clock = 0
  /\ last = NoLast
  /\ done = <<>>
  /\ arch = <<>>
  /\ mem = NoMem
  /\ hist = NoHist
  /\ inv = NoInv
  /\ call \in {[fn |-> "copyTemplateFiles", src |-> src, variables |-> v,
                 before |-> DestinationTree(hasDest), returned |-> FALSE,
                 after |-> DestinationTree(hasDest)] :
                src \in TemplateTrees, v \in FullVariables, hasDest \in BOOLEAN}

NextCopy == CopyTemplate

SpecCopy == InitCopy /\ [][NextCopy]_vars

(***************************************************************************)
(* The config store used directly, as the unit tests do: a caller builds a *)
(* config object, saves it, loads it back, saves what it loaded.  The file *)
(* it starts from is any document of the persisted layout, or a file that  *)
(* does not parse, or no file.                                             *)
(***************************************************************************)
OldRecord ==
  [name |-> "old-project", path |-> <<"tmp", "old">>, added |-> 0, lastModified |-> 0]

LegacyRecord ==
  [name |-> "legacy", path |-> <<"tmp", "legacy">>, added |-> 0, lastModified |-> 1,
   size |-> 1, docs |-> <<"tmp", "legacy", "docs">>, category |-> "Technical"]

FullRecord ==
  [name |-> "complete-project", path |-> <<"tmp", "complete">>, added |-> 0,
   lastModified |-> 0, state |-> "completed", completedAt |-> 1, size |-> 2,
   docs |-> <<"tmp", "complete", "docs">>, category |-> "Personal",
   description |-> "A complete project", visibility |-> "private",
   repoUrl |-> "https://github.com/user/complete", nextSteps |-> "Archive it"]

\* a record as the MCP handler builds it: completedAt present and undefined
HeldRecord ==
  [name |-> "held", path |-> <<"tmp", "held">>, added |-> 0, lastModified |-> 1,
   state |-> "paused", completedAt |-> Undefined]

DiskRecords == {OldRecord, LegacyRecord, FullRecord}

MemRecords == DiskRecords \cup {HeldRecord}

SeqsUpTo(S, n) == UNION {[1..k -> S] : k \in 0..n}

DiskInputs ==
  {Absent, Garbage, NoProjects} \cup {Doc("1.0.0", projects) : projects \in SeqsUpTo(DiskRecords, MaxRecs)}

ConfigInputs ==
  {[version |-> "1.0.0", projects |-> projects] : projects \in SeqsUpTo(MemRecords, MaxRecs)}

Call(op, result, exit) == [NoLast EXCEPT !.op = op, !.via = "lib", !.result = result, !.exit = exit]

Construct(c) ==
  /\ mem' = [held |-> TRUE, config |-> c]
  /\ last' = Call("construct", "ok", FALSE)
  /\ hist' = [prev |-> last.op, replaced |-> FALSE]
  /\ UNCHANGED <<disk, fs, clock, done, arch, inv, call>>

LoadConfigCall ==
  LET ld == loadConfig(disk)
  IN /\ disk' = ld.disk
     /\ mem' = IF ld.ok THEN [held |-> TRUE, config |-> ld.config] ELSE NoMem
     /\ last' = IF ld.ok THEN Call("load", "ok", FALSE) ELSE Call("load", "ConfigCorrupt", TRUE)
     /\ hist' = [prev |-> last.op, replaced |-> last.op = "save" /\ hist.replaced]
     /\ UNCHANGED <<fs, clock, done, arch, inv, call>>

SaveConfigCall ==
  /\ mem.held
  /\ disk' = saveConfig(mem.config)
  /\ last' = Call("save", "ok", FALSE)
  /\ hist' = [prev |-> last.op,
              replaced |-> disk.kind = "doc" /\ ~SameProjects(disk.projects, mem.config.projects)]
  /\ UNCHANGED <<fs, clock, done, arch, mem, inv, call>>

InitStore ==
  /\ disk \in DiskInputs
  /\ fs = InitialFs
  /\ clock = 0
  /\ last = NoLast
  /\ done = <<>>
  /\ arch = <<>>
  /\ mem = NoMem
  /\ hist = NoHist
  /\ inv = NoInv
  /\ call = NoCall

NextStore ==
  \/ \E c \in ConfigInputs : Construct(c)
  \/ LoadConfigCall
  \/ SaveConfigCall

SpecStore == InitStore /\ [][NextStore]_vars

(***************************************************************************)
(* Properties of the config store (SpecStore)                              *)
(***************************************************************************)
LoadedFromDoc == last'.op = "load" /\ disk.kind = "doc"

\* q is p with nothing changed but a state that p lacked
MigratedFrom(q, p) ==
  /\ DOMAIN q = (DOMAIN p) \cup {"state"}
  /\ \A f \in DOMAIN p : q[f] = p[f]
  /\ ~Has(p, "state") => q["state"] = "active"

\* C1: loading a store in which a record lacks state returns that record
\* with state = "active" and every other record and field as persisted, and
\* the load does not write the file: the record on disk still lacks state.
C1_LoadMigratesInMemoryOnly ==
  [][LoadedFromDoc =>
       /\ disk' = disk
       /\ last'.result = "ok"
       /\ mem'.held
       /\ mem'.config.version = disk.version
       /\ Len(mem'.config.projects) = Len(disk.projects)
       /\ \A i \in 1..Len(disk.projects) :
            MigratedFrom(mem'.config.projects[i], disk.projects[i])]_vars

C1_Witness ==
  /\ last.op = "load"
  /\ last.result = "ok"
  /\ hist.prev = "init"
  /\ disk.kind = "doc"
  /\ Len(disk.projects) = 2
  /\ ~Has(disk.projects[1], "state")
  /\ Has(disk.projects[2], "state")
  /\ mem.config.projects[1]["state"] = "active"
  /\ mem.config.projects[2]["state"] = "completed"

SavedWhatWasLoaded ==
  /\ last.op = "load"
  /\ last.result = "ok"
  /\ disk.kind = "doc"
  /\ last'.op = "save"

\* C2 as stated: load() then save() of the returned store leaves the
\* persisted project sequence identical (same records, order, fields, values).
C2_RoundTripIdentity ==
  [][SavedWhatWasLoaded => disk'.kind = "doc" /\ disk'.projects = disk.projects]_vars

\* C2 as amended: load() then save() keeps the number and order of the
\* records and every persisted field and value; the only change is that a
\* record persisted without state is written back with state = "active".
C2_RoundTripUpToMigration ==
  [][SavedWhatWasLoaded =>
       /\ disk'.kind = "doc"
       /\ disk'.version = disk.version
       /\ Len(disk'.projects) = Len(disk.projects)
       /\ \A i \in 1..Len(disk.projects) :
            /\ MigratedFrom(disk'.projects[i], disk.projects[i])
            /\ Has(disk.projects[i], "state") => disk'.projects[i] = disk.projects[i]]_vars

C2_Witness ==
  /\ last.op = "save"
  /\ hist.prev = "load"
  /\ disk.kind = "doc"
  /\ Len(disk.projects) = 2
  /\ disk.projects[1] = FullRecord
  /\ disk.projects[2] = Put(LegacyRecord, "state", "active")
  /\ SameProjects(disk.projects, mem.config.projects)

CarriesState(r) == Has(r, "state") /\ r["state"] \in ProjectState

LoadedWhatWasSaved ==
  /\ last.op = "save"
  /\ last'.op = "load"
  /\ \A i \in 1..Len(mem.config.projects) : CarriesState(mem.config.projects[i])

\* C3: saveConfig(c) then loadConfig() returns a config equal to c when every
\* record of c carries a state: same version, same records in the same order,
\* every field unchanged, whatever the file held before the save.
C3_SaveThenLoad ==
  [][LoadedWhatWasSaved =>
       /\ last'.result = "ok"
       /\ mem'.held
       /\ mem'.config.version = mem.config.version
       /\ SameProjects(mem'.config.projects, mem.config.projects)]_vars

C3_Witness ==
  /\ last.op = "load"
  /\ hist.prev = "save"
  /\ hist.replaced
  /\ mem.held
  /\ Len(mem.config.projects) = 2
  /\ mem.config.projects[1] = FullRecord
  /\ SameRecord(mem.config.projects[2], HeldRecord)
  /\ disk.projects[1] = FullRecord

(***************************************************************************)
(* Properties of the commands (Spec).  last describes the command that has *)
(* just ended, at the time it ran: a Tick forgets it.                      *)
(***************************************************************************)
\* the command that has just ended is one of the CLI's lifecycle commands
LifecycleRan == last.via = "cli" /\ last.op \in LifecycleOps

\* how a command ends when it stops before it reads the store
InputErrors ==
  {"NameRequired", "PathRequired", "DirectoryMissing", "DocsMissing", "ValueRequired",
   "TemplateRequired", "TemplateNotFound", "DestinationExists", "DirectoryCreateError",
   "CopyError"}

\* C4: when the store file does not parse (or parses to something without
\* a project sequence), the command that loads it ends with the
\* config-corrupt error, and the file is left exactly as it was: not reset,
\* not repaired, not saved over.
C4_CorruptStoreUntouched ==
  /\ last.result = "ConfigCorrupt" => last.broken
  /\ last.broken =>
       /\ ~last.touched
       /\ Corrupt(disk)
       /\ last.idx = 0
       /\ last.result \in {"ConfigCorrupt"} \cup InputErrors
       /\ (last.op \in LifecycleOps /\ ~IsBlank(last.name)) => last.result = "ConfigCorrupt"
       /\ last.via = "mcp" => last.result = "ConfigCorrupt"

C4_Witness ==
  /\ disk = Garbage
  /\ last.op = "archive"
  /\ last.name = "a"
  /\ last.result = "ConfigCorrupt"

\* C5: complete on an existing record sets state = completed and sets
\* completedAt to the current time, on every invocation, also when the
\* record is already completed: the previous completedAt is replaced.
C5_CompleteRefreshesDate ==
  (LifecycleRan /\ last.op = "complete" /\ last.found) =>
    /\ last.result = "ok"
    /\ disk.projects[last.idx]["state"] = "completed"
    /\ disk.projects[last.idx]["completedAt"] = clock

C5_Witness ==
  /\ last.op = "complete"
  /\ last.via = "cli"
  /\ last.result = "ok"
  /\ last.was.state = "completed"
  /\ last.was.completedAt = 0
  /\ disk.projects[last.idx]["completedAt"] = 1

\* C6: archive leaves the completedAt of a record that has one unchanged;
\* pause and reactivate each remove completedAt, whatever the state was.
C6_CompletionDatePolicy ==
  (LifecycleRan /\ last.result = "ok") =>
    LET q == disk.projects[last.idx]
    IN /\ (last.op = "archive" /\ last.was.completedAt # Undefined) =>
            Has(q, "completedAt") /\ q["completedAt"] = last.was.completedAt
       /\ last.op \in {"pause", "reactivate"} => ~Has(q, "completedAt")

C6_Witness ==
  /\ last.op = "reactivate"
  /\ last.via = "cli"
  /\ last.result = "ok"
  /\ last.was.state = "archived"
  /\ last.was.completedAt # Undefined
  /\ ~Has(disk.projects[last.idx], "completedAt")

\* C7: for a record in any of the four states, complete, pause, archive and
\* reactivate each succeed and leave the record in the state the command
\* names, self-transitions included; the current state rejects nothing.
C7_CompleteGraph ==
  (LifecycleRan /\ last.found) =>
    /\ last.result = "ok"
    /\ last.idx = FindIndex(disk.projects, last.name)
    /\ last.op = "complete" => disk.projects[last.idx]["state"] = "completed"
    /\ last.op = "pause" => disk.projects[last.idx]["state"] = "paused"
    /\ last.op = "archive" => disk.projects[last.idx]["state"] = "archived"
    /\ last.op = "reactivate" => disk.projects[last.idx]["state"] = "active"

C7_Witness ==
  /\ last.op = "archive"
  /\ last.via = "cli"
  /\ last.result = "ok"
  /\ last.was.state = "archived"
  /\ disk.projects[last.idx]["state"] = "archived"

\* C8: a lifecycle command given a name that matches no record fails with
\* the project-not-found error and saves nothing: the persisted project
\* sequence is exactly what it was before.
C8_NotFoundLeavesStore ==
  /\ (LifecycleRan /\ ~IsBlank(last.name) /\ ~last.broken /\ ~last.found) =>
       last.result = "ProjectNotFound"
  /\ (LifecycleRan /\ last.result = "ProjectNotFound") =>
       /\ last.kept
       /\ last.idx = 0
       /\ FindIndex(Projects(disk), last.name) = 0

C8_Witness ==
  /\ last.op \in LifecycleOps
  /\ last.via = "cli"
  /\ last.result = "ProjectNotFound"
  /\ Len(Projects(disk)) = 1
  /\ ~Has(disk.projects[1], "state")

\* C9: a record has completedAt if and only if it has been marked completed
\* and neither pause nor reactivate has been applied to it since, whether
\* the operations came through the CLI or through the MCP adapter.
C9_CompletedAtIffMarked ==
  \A i \in 1..Len(Projects(disk)) : Has(disk.projects[i], "completedAt") <=> done[i]

\* C10: a record carries completedAt only while its state is completed, or
\* while it is archived having been archived straight from completed; an
\* active or paused record never carries it.
C10_CompletedAtOnlyWhileCompleted ==
  \A i \in 1..Len(Projects(disk)) :
    Has(disk.projects[i], "completedAt") =>
      \/ StateOr(disk.projects[i]) = "completed"
      \/ StateOr(disk.projects[i]) = "archived" /\ arch[i]

(***************************************************************************)
(* Properties of the project sequence (SpecSeq)                            *)
(***************************************************************************)
\* C11: name is a unique key: starting from an empty store, after any
\* sequence of add, scan, scaffold, remove, lifecycle and field-update
\* operations, no two records of the persisted sequence have the same name.
C11_NamesUnique ==
  \A i, j \in 1..Len(Projects(disk)) :
    i # j => disk.projects[i]["name"] # disk.projects[j]["name"]

\* what tells one record of the sequence from another
Key(r) == <<r["name"], r["path"]>>

CreatingOps == {"add", "scan", "create"}

\* C12: the sequence keeps insertion order: add, scan and scaffold leave the
\* existing records where they were and put new ones after them; remove
\* takes one record out and leaves the others in their order; every other
\* command leaves each record at its position.
C12_InsertionOrder ==
  [][LET old == Projects(disk)
         new == Projects(disk')
     IN /\ last'.op \in CreatingOps =>
             /\ Len(new) >= Len(old)
             /\ \A i \in 1..Len(old) : Key(new[i]) = Key(old[i])
        /\ (last'.op = "remove" /\ last'.result = "ok") =>
             /\ Len(new) = Len(old) - 1
             /\ \A j \in 1..Len(new) :
                  Key(new[j]) = IF j < last'.idx THEN Key(old[j]) ELSE Key(old[j + 1])
        /\ (last'.op \notin CreatingOps /\ ~(last'.op = "remove" /\ last'.result = "ok")) =>
             /\ Len(new) = Len(old)
             /\ \A i \in 1..Len(old) : Key(new[i]) = Key(old[i])]_vars

\* the first of three records has just been removed
C12_Witness ==
  /\ last.op = "remove"
  /\ last.result = "ok"
  /\ last.idx = 1
  /\ Len(Projects(disk)) = 2
  /\ Key(disk.projects[1]) # Key(disk.projects[2])

(***************************************************************************)
(* Properties of the fields of a record                                    *)
(***************************************************************************)
\* C13: added is set when the record is created and never changes: every
\* command other than the removal of the record (lifecycle changes, field
\* updates through the CLI or the MCP adapter, list refresh, scan of a
\* tracked path, load and save) leaves the added value of every record it
\* keeps as it was.
C13_AddedImmutable ==
  [][LET old == Projects(disk)
         new == Projects(disk')
     IN IF last'.op = "remove" /\ last'.result = "ok"
        THEN \A j \in 1..Len(new) :
               new[j]["added"] =
                 IF j < last'.idx THEN old[j]["added"] ELSE old[j + 1]["added"]
        ELSE /\ Len(new) >= Len(old)
             /\ \A i \in 1..Len(old) : new[i]["added"] = old[i]["added"]]_vars

\* C14: lastModified and size are refreshed only when the store is read and
\* the record's path exists: a listing that refreshes gives a record whose
\* path exists the values of the filesystem and leaves a record whose path
\* does not exist as it was, and no command changes lastModified or size of
\* a record whose path does not exist.
C14_RefreshOnlyIfPathExists ==
  [][LET old == Projects(disk)
         new == Projects(disk')
     IN (Len(new) >= Len(old) /\ ~(last'.op = "remove" /\ last'.result = "ok")) =>
          \A i \in 1..Len(old) :
            /\ (last'.op = "list" /\ last'.result = "ok" /\ Exists(fs, old[i]["path"])) =>
                 /\ new[i]["lastModified"] = fs[old[i]["path"]]
                 /\ new[i]["size"] = Cardinality(Entries(fs, old[i]["path"]))
            /\ ~Exists(fs, old[i]["path"]) =>
                 /\ new[i]["lastModified"] = old[i]["lastModified"]
                 /\ new[i]["size"] = old[i]["size"]]_vars

(***************************************************************************)
(* Properties of two invocations at once (SpecRace)                        *)
(***************************************************************************)
\* C15: when two invocations interleave their load/save pairs, neither fails
\* or detects a conflict, and the store file is exactly the full document
\* the last save wrote, computed from what that invocation loaded: what the
\* other invocation saved after that load is lost, nothing is merged.
C15_LastWriterWins ==
  /\ \A i \in Invocations : inv.of[i].pc = "saved" => inv.of[i].result = "ok"
  /\ \A i \in Invocations :
       inv.saver = i =>
         /\ disk = saveConfig(
                     [loadConfig(inv.of[i].seen).config EXCEPT !.projects[1] =
                        IF inv.of[i].cmd \in LifecycleOps
                        THEN applyState(@, TargetState(inv.of[i].cmd),
                                        ClearFlag(inv.of[i].cmd), clock)
                        ELSE Put(@, "category", "v")])
         /\ (inv.of[i].stale /\ inv.of[i].cmd = "set-category") =>
              /\ StateOr(disk.projects[1]) = StateOr(inv.of[i].seen.projects[1])
              /\ Has(disk.projects[1], "completedAt") =
                   Has(inv.of[i].seen.projects[1], "completedAt")
         /\ (inv.of[i].stale /\ inv.of[i].cmd \in LifecycleOps) =>
              Has(disk.projects[1], "category") = Has(inv.of[i].seen.projects[1], "category")

\* both are done; the one that saved last had loaded before the other
\* completed the project, and the store shows the project not completed
C15_Witness ==
  /\ inv.of[1].pc = "saved"
  /\ inv.of[2].pc = "saved"
  /\ inv.saver = 1
  /\ inv.of[1].stale
  /\ inv.of[1].cmd = "set-category"
  /\ inv.of[2].cmd = "complete"
  /\ inv.of[2].result = "ok"
  /\ StateOr(disk.projects[1]) = "active"
  /\ disk.projects[1]["category"] = "v"

(***************************************************************************)
(* Properties of the MCP adapter (SpecAdapter)                             *)
(***************************************************************************)
\* the CLI command whose target state is s
OpFor(s) == CHOOSE op \in LifecycleOps : TargetState(op) = s

\* C16: update_project_state is a 1:1 mapping onto the lifecycle commands:
\* for an existing record and any of the four states s, the record after
\* update_project_state(name, s) is the record the CLI command with target s
\* leaves, with the same state and the same completedAt.
C16_AdapterMatchesLifecycle ==
  [][(last'.via = "mcp" /\ last'.op \in ProjectState /\ last'.result = "ok") =>
       LET cli == setProjectState(disk, last'.name, last'.op, ClearFlag(OpFor(last'.op)), clock)
       IN /\ cli.result = "ok"
          /\ cli.idx = last'.idx
          /\ SameRecord(disk'.projects[last'.idx], cli.disk.projects[cli.idx])]_vars

\* C17: a modification through the MCP server passes the validation of the
\* CLI: an update_project_field or update_project_state request the CLI
\* command would reject (blank value, blank name, a field outside the five
\* metadata fields, a state outside the four lifecycle states) is reported
\* as an error and leaves the persisted project sequence as it was.
C17_AdapterValidates ==
  (last.via = "mcp" /\ last.bad) => (last.result # "ok" /\ last.kept)

(***************************************************************************)
(* Properties of error handling                                            *)
(***************************************************************************)
\* C18: a core operation (load, save, the lifecycle transition, the
\* scaffolder) signals a failure to its caller and never terminates the
\* process itself; only the dispatch layer decides to exit.
C18_CoreSignalsFailure ==
  (last.via = "cli" /\ last.op \in LifecycleOps \cup {"create"}) => ~last.exit

\* C19: list --json always writes a JSON document with a projects array to
\* standard output, for every readable store and every state filter, also
\* when the store is empty and when no record matches the filter.
C19_ListJsonAlwaysJson ==
  (last.op = "list" /\ last.json /\ ~last.broken) => last.stdout = "json"

\* C20: scaffolding whose inputs fail validation (the template does not
\* load, or the destination path exists) fails with that error and creates
\* nothing: no directory or file is written, no repository is initialized,
\* and no record is added to the store.
C20_FailedScaffoldCreatesNothing ==
  [][(last'.op = "create" /\ last'.result \in {"TemplateNotFound", "DestinationExists"}) =>
       /\ fs' = fs
       /\ disk' = disk]_vars

\* the destination exists and is not tracked; the scaffolder has refused it
C20_Witness ==
  /\ last.op = "create"
  /\ last.result = "DestinationExists"
  /\ Exists(fs, Join(cwd, last.name))
  /\ FindIndex(Projects(disk), last.name) = 0

(***************************************************************************)
(* Properties of the scaffolder (SpecCreate)                               *)
(***************************************************************************)
\* the destination of the create that has just ended
Dest == IF last.args.path # NoArg THEN last.args.path ELSE Join(cwd, last.name)

CreateRan == last.op = "create"

\* C21: scaffolding runs its steps in order and halts at the first fatal
\* failure without rollback: the record is in the store only after the
\* destination directory was made and the template copied; when making the
\* directory or the copy fails nothing is registered and the store is not
\* saved, and what was made at the destination stays.
C21_HaltsWithoutRollback ==
  CreateRan =>
    /\ last.result = "ok" =>
         /\ last.args.ok.mkdir /\ last.args.ok.copy
         /\ Exists(fs, Dest) /\ Exists(fs, Join(Dest, "README.md"))
         /\ last.idx = Len(Projects(disk))
         /\ disk.projects[last.idx]["path"] = Dest
    /\ last.result = "DirectoryCreateError" =>
         ~last.args.ok.mkdir /\ ~last.touched /\ ~Exists(fs, Dest)
    /\ last.result = "CopyError" =>
         /\ ~last.args.ok.copy /\ ~last.touched
         /\ Exists(fs, Dest) /\ ~Exists(fs, Join(Dest, ".git"))
    /\ (~last.args.ok.mkdir \/ ~last.args.ok.copy) =>
         /\ last.result # "ok"
         /\ ~last.touched

\* the copy failed: the directory is there, the project is not registered
C21_Witness ==
  /\ CreateRan
  /\ last.result = "CopyError"
  /\ Exists(fs, Dest)
  /\ Len(Projects(disk)) = 1
  /\ disk.projects[1]["name"] = "a"

\* the decision as the documentation states it
GitDecision ==
  IF last.args.git = "git" THEN TRUE
  ELSE IF last.args.git = "no-git" THEN FALSE
  ELSE IF Has(Templates[last.args.template], "gitInit")
  THEN Templates[last.args.template]["gitInit"]
  ELSE TRUE

\* C22: the git decision is the explicit flag when one is given, otherwise
\* the template's gitInit when declared, otherwise true; the repository is
\* initialized in the destination if and only if the decision is true.
C22_GitDecision ==
  (CreateRan /\ last.result = "ok" /\ last.args.ok.git) =>
    (Exists(fs, Join(Dest, ".git")) <=> GitDecision)

\* --git on a template that declares gitInit false: a repository is there
C22_Witness ==
  /\ CreateRan
  /\ last.result = "ok"
  /\ last.args.template = "quiet"
  /\ last.args.git = "git"
  /\ Exists(fs, Join(Dest, ".git"))

\* the docs path of the record, as the documentation states it
DocsExpected ==
  IF last.args.docs # NoArg THEN last.args.docs
  ELSE CASE last.args.template = "basic" -> Join(Dest, "docs")
         [] last.args.template = "quiet" -> <<"w", "notes", last.name>>
         [] OTHER -> NoArg

StepsExpected ==
  CASE last.args.template = "basic" -> "Install dependencies; Start coding"
    [] last.args.template = "quiet" -> "Read the notes"
    [] OTHER -> ""

\* the record r is the one create registers for its arguments
Registered(r) ==
  /\ r["name"] = last.name
  /\ r["path"] = Dest
  /\ r["state"] = "active"
  /\ Has(r, "docs") <=> DocsExpected # NoArg
  /\ Has(r, "docs") => r["docs"] = DocsExpected
  /\ Has(r, "nextSteps") <=> StepsExpected # ""
  /\ Has(r, "nextSteps") => r["nextSteps"] = StepsExpected

\* C23: failing to make the docs directory and failing to initialize the
\* repository are not fatal: in either case, or both, the record is
\* registered and the store saved as when the steps succeed.
C23_DocsAndGitNonFatal ==
  (CreateRan /\ last.args.ok.mkdir /\ last.args.ok.copy
     /\ last.result \notin {"TemplateRequired", "NameRequired", "TemplateNotFound",
                             "DestinationExists"}) =>
    /\ last.result = "ok"
    /\ last.touched
    /\ last.idx = Len(Projects(disk))
    /\ Registered(disk.projects[last.idx])

\* both steps failed; the project is registered with its docs path all the same
C23_Witness ==
  /\ CreateRan
  /\ last.result = "ok"
  /\ ~last.args.ok.docs
  /\ ~last.args.ok.git
  /\ last.args.template = "basic"
  /\ disk.projects[last.idx]["docs"] = Join(Dest, "docs")
  /\ ~Exists(fs, Join(Dest, "docs"))
  /\ ~Exists(fs, Join(Dest, ".git"))

Substituted == call.fn = "substituteVariables" /\ call.returned

IsPlaceholderOf(variables, token) ==
  \E i \in 1..Len(variables) : variables[i].defined /\ token = Placeholder(variables[i].key)

ValueFor(variables, token) ==
  variables[CHOOSE i \in 1..Len(variables) :
              variables[i].defined /\ token = Placeholder(variables[i].key)].value

\* the content with each of its own placeholders exchanged for the value,
\* everything else kept
Exchanged(content, variables) ==
  Flatten([i \in 1..Len(content) |->
             IF IsPlaceholderOf(variables, content[i])
             THEN ValueFor(variables, content[i])
             ELSE <<content[i]>>])

Occurs(sub, text) ==
  \E i \in 0..(Len(text) - Len(sub)) : SubSeq(text, i + 1, i + Len(sub)) = sub

\* C25: substituteVariables returns the content with every placeholder of a
\* key that has a defined value replaced by that value, and with every other
\* placeholder and all other text exactly as it was.
C25_ReplacesEveryOccurrence ==
  Substituted => call.output = Exchanged(call.content, call.variables)

\* C26: a value inserted for a placeholder is in the output exactly as given:
\* whenever the content holds the placeholder of a key with a defined value,
\* that value occurs in the output.
C26_LiteralSinglePass ==
  Substituted =>
    \A i \in 1..Len(call.variables) :
      (/\ call.variables[i].defined
       /\ \E j \in 1..Len(call.content) :
            call.content[j] = Placeholder(call.variables[i].key))
      => Occurs(call.variables[i].value, call.output)

Copied == call.fn = "copyTemplateFiles" /\ call.returned

\* where the copy of a source path belongs
Mirror(srcPath) == DestPath \o SubSeq(srcPath, Len(FilesDir) + 1, Len(srcPath))

\* C27: after copyTemplateFiles every directory of the template's files,
\* empty ones included, is a directory at the same relative path of the
\* destination, every file with a binary extension has its source's content,
\* every other file holds substituteVariables of its source's content under
\* the full variable set, and no path outside the destination is created or
\* changed.
C27_MirrorsTemplateTree ==
  Copied =>
    /\ \A srcPath \in DOMAIN call.src :
         (IsUnder(srcPath, FilesDir) /\ srcPath # FilesDir) =>
           LET node == call.src[srcPath]
           IN /\ node.kind = "dir" =>
                   /\ Mirror(srcPath) \in DOMAIN call.after
                   /\ call.after[Mirror(srcPath)] = DirNode
              /\ (node.kind = "file" /\ isBinaryFile(srcPath)) =>
                   /\ Mirror(srcPath) \in DOMAIN call.after
                   /\ call.after[Mirror(srcPath)] = node
              /\ (node.kind = "file" /\ ~isBinaryFile(srcPath)) =>
                   /\ Mirror(srcPath) \in DOMAIN call.after
                   /\ call.after[Mirror(srcPath)] =
                        FileNode(substituteVariables(node.content, call.variables))
    /\ \A path \in DOMAIN call.after \cup DOMAIN call.before :
         ~IsUnder(path, DestPath) =>
           /\ path \in DOMAIN call.before
           /\ path \in DOMAIN call.after
           /\ call.after[path] = call.before[path]

C27_Witness ==
  /\ Copied
  /\ DestPath \o <<EntryName("empty", "")>> \in DOMAIN call.after
  /\ DestPath \o <<SrcDirName, EntryName("IMG", ".PNG")>> \in DOMAIN call.after
  /\ DestPath \o <<SrcDirName, EntryName("index", ".ts")>> \in DOMAIN call.after
  /\ DestPath \o <<EntryName("logo", ".png")>> \in DOMAIN call.after
  /\ DestPath \o <<EntryName("README", ".md")>> \in DOMAIN call.after
  /\ call.after[DestPath \o <<EntryName("logo", ".png")>>] = FileNode(<<"t", "{{name}}">>)
  /\ call.after[DestPath \o <<EntryName("README", ".md")>>] = FileNode(<<"t", "v", "d">>)
  /\ DestPath \notin DOMAIN call.before

\* the checks of add, on the store and filesystem the command starts from
AddRejects(name, pathArg, docsPath) ==
  \/ IsBlank(name)
  \/ pathArg = NoArg
  \/ ~Exists(fs, pathArg)
  \/ docsPath # NoArg /\ ~Exists(fs, docsPath)
  \/ \E i \in 1..Len(Projects(disk)) : Projects(disk)[i]["name"] = name

\* record i of the store file as the step leaves it if it leaves it alone:
\* as loadConfig returned it when the step saved, as it was otherwise
Loaded(i) ==
  IF disk' = disk THEN Projects(disk)[i] ELSE Migrate(Projects(disk)[i])

\* the records of the store file before the step are the first records after it
EarlierRecordsKept ==
  /\ Len(Projects(disk')) >= Len(Projects(disk))
  /\ \A i \in 1..Len(Projects(disk)) : SameRecord(Projects(disk')[i], Loaded(i))

\* C28: add with a blank name, no path, a path or a docs path that does not
\* exist, or a name that is already stored ends in failure and leaves the
\* store file as it was; any other add appends exactly one record, with the
\* name and path given, and saves.
C28_AddChecks ==
  [][\A name \in RegistryNames, pathArg \in RegistryPaths, docsPath \in RegistryDocs :
       (last'.op = "add" /\ Add(name, pathArg, docsPath)) =>
         IF AddRejects(name, pathArg, docsPath)
         THEN last'.exit /\ last'.result # "ok" /\ disk' = disk
         ELSE /\ last'.result = "ok"
              /\ ~last'.exit
              /\ disk'.kind = "doc"
              /\ Len(Projects(disk')) = Len(Projects(disk)) + 1
              /\ EarlierRecordsKept
              /\ Projects(disk')[Len(Projects(disk'))]["name"] = name
              /\ Projects(disk')[Len(Projects(disk'))]["path"] = pathArg]_vars

C28_Witness ==
  /\ last.op = "add"
  /\ last.result = "AlreadyExists"
  /\ last.kept
  /\ Len(Projects(disk)) = 2

\* the directories a scan of dirPath takes for projects
Candidates(dirPath) ==
  IF dirPath # NoArg /\ Exists(fs, dirPath)
  THEN {q \in Entries(fs, dirPath) : looksLikeProject(fs, q)}
  ELSE {}

TrackedIn(projects, q) == \E i \in 1..Len(projects) : projects[i]["path"] = q

\* C29: scan keeps every stored record as it is and in place (a record
\* stored without state reads as active before and after), adds records only
\* for paths that no stored record has, and adds each path once; a scan that
\* follows a successful scan, or that finds every candidate tracked, adds
\* nothing, and after a successful scan every candidate is tracked.
C29_ScanIdempotent ==
  [][\A dirPath \in ScanArgs :
       (last'.op = "scan" /\ Scan(dirPath)) =>
         /\ EarlierRecordsKept
         /\ \A i \in (Len(Projects(disk)) + 1)..Len(Projects(disk')) :
              /\ ~TrackedIn(Projects(disk), Projects(disk')[i]["path"])
              /\ \A j \in (Len(Projects(disk)) + 1)..Len(Projects(disk')) :
                   Projects(disk')[j]["path"] = Projects(disk')[i]["path"] => j = i
         /\ (last.op = "scan" /\ last.result = "ok")
              => Len(Projects(disk')) = Len(Projects(disk))
         /\ (\A q \in Candidates(dirPath) : TrackedIn(Projects(disk), q))
              => Len(Projects(disk')) = Len(Projects(disk))
         /\ last'.result = "ok"
              => \A q \in Candidates(dirPath) : TrackedIn(Projects(disk'), q)]_vars

\* C29 as stated: a scan leaves every stored record exactly as the store
\* file held it, and a scan that follows a successful scan leaves the
\* project sequence of the store file equal to what it was.
C29_ScanIdempotentExactly ==
  [][\A dirPath \in ScanArgs :
       (last'.op = "scan" /\ Scan(dirPath)) =>
         /\ Len(Projects(disk')) >= Len(Projects(disk))
         /\ \A i \in 1..Len(Projects(disk)) : Projects(disk')[i] = Projects(disk)[i]
         /\ (last.op = "scan" /\ last.result = "ok") => Projects(disk') = Projects(disk)]_vars

C29_Witness ==
  /\ last.op = "scan"
  /\ last.result = "ok"
  /\ last.kept
  /\ clock = MaxClock
  /\ Len(Projects(disk)) = 2
  /\ \E i \in 1..Len(Projects(disk)) : Projects(disk)[i]["state"] = "completed"

\* C30: list leaves the store file with every record it held, in place and
\* whatever the filter, each with the fields loadConfig returned except
\* lastModified and size; on a store without records, and when the filter
\* shows no record, the store file is as it was.
C30_ListKeepsEveryRecord ==
  [][\A filter \in ListFilters :
       (last'.op = "list" /\ List(filter, FALSE)) =>
         /\ Len(Projects(disk')) = Len(Projects(disk))
         /\ \A i \in 1..Len(Projects(disk)) :
              \A f \in FieldNames \ {"lastModified", "size"} :
                /\ Defined(Projects(disk')[i], f) <=> Defined(Loaded(i), f)
                /\ Defined(Projects(disk')[i], f) => Projects(disk')[i][f] = Loaded(i)[f]
         /\ (/\ disk.kind = "doc"
             /\ \A i \in 1..Len(Projects(disk)) : ~Shown(Projects(disk)[i], filter))
              => disk' = disk]_vars

C30_Witness ==
  /\ last.op = "list"
  /\ last.result = "ok"
  /\ last.touched
  /\ ~last.kept
  /\ Len(Projects(disk)) = 2
  /\ \E i, j \in 1..Len(Projects(disk)) :
       /\ Projects(disk)[i]["state"] = "completed"
       /\ Projects(disk)[j]["state"] = "paused"
  /\ \E i \in 1..Len(Projects(disk)) : Projects(disk)[i]["lastModified"] = MaxClock

====
